---- MODULE Spec2Model ----
(***************************************************************************)
(* r-integration (src/src/r.js): the bridge that locates the Rscript       *)
(* binary, synthesizes an R call expression, runs it as a subprocess and   *)
(* parses the printed output.                                              *)
(*                                                                         *)
(* Representation.  A JavaScript string is a Text: a sequence of tokens.   *)
(* Every token the code inspects character by character (the call         *)
(* expression, the subprocess output) is one character; fixed pieces the   *)
(* code only copies (a path segment, a message template) are one token.    *)
(* A value that may be undefined is a record [def, s].                     *)
(***************************************************************************)
EXTENDS FiniteSets, Integers, Sequences, TLC

VARIABLES
    platform,   \* process.platform of the host, fixed for a run
    fs,         \* the filesystem: the set of installed engine paths and files
    phase,      \* the caller: "idle", "blocked" (in execSync) or "awaiting" (exec callback)
    call,       \* the arguments of the facade operation in progress or last finished
    spawned,    \* the command lines that operation has spawned, in order
    proc,       \* how the engine subprocess of that operation ended
    result,     \* what the operation gave its caller
    raw,        \* output parser: the raw text handed to filterMultiline
    parsed,     \* output parser: what filterMultiline returned for raw
    synth,      \* call synthesizer: the function name and params handed to it
    expr        \* call synthesizer: the call expression built for synth

vars == <<platform, fs, phase, call, spawned, proc, result, raw, parsed, synth, expr>>

facadeVars == <<platform, fs, phase, call, spawned, proc, result>>

----------------------------------------------------------------------------
(* Bounds of the model *)

MaxVersions == 2        \* R versions that can be installed under a Windows root
MaxRawLen == 4          \* characters of raw subprocess output (parser runs)
MaxItems == 2           \* elements of a parameter list, entries of a named map
MaxDepth == 1           \* nesting depth of the lists inside params

----------------------------------------------------------------------------
(* JavaScript values *)

Undefined == [def |-> FALSE, s |-> <<>>]

Str(t) == [def |-> TRUE, s |-> t]

\* !x for a string-or-undefined x: undefined and "" are falsy
Truthy(x) == x.def /\ x.s # <<>>

\* `${x}` for a string-or-undefined x
Stringify(x) == IF x.def THEN x.s ELSE <<"undefined">>

\* String.prototype.slice(0, -1): all but the last character
SliceOffLast(t) == IF t = <<>> THEN <<>> ELSE SubSeq(t, 1, Len(t) - 1)

RECURSIVE ReplaceFirst(_, _)
\* String.prototype.replace(tok, ""): only the first occurrence goes
ReplaceFirst(t, tok) ==
    IF t = <<>> THEN <<>>
    ELSE IF Head(t) = tok THEN Tail(t)
    ELSE <<Head(t)>> \o ReplaceFirst(Tail(t), tok)

RECURSIVE Concat(_)
Concat(ts) == IF ts = <<>> THEN <<>> ELSE Head(ts) \o Concat(Tail(ts))

----------------------------------------------------------------------------
(* Platform classifier *)

Platforms == {"win32", "linux", "openbsd", "freebsd", "darwin", "sunos"}

getCurrentOs_unknown(processPlatform) ==
    IF processPlatform = "win32" THEN "win"
    ELSE IF processPlatform \in {"linux", "openbsd", "freebsd"} THEN "lin"
    ELSE IF processPlatform = "darwin" THEN "mac"
    ELSE "unknown"

getCurrentOs(processPlatform) ==
    IF processPlatform = "win32" THEN "win"
    ELSE IF processPlatform \in {"linux", "openbsd", "freebsd"} THEN "lin"
    ELSE "mac"

----------------------------------------------------------------------------
(* Paths: node's path module and the filesystem calls the locator makes *)

Sep(os) == IF os = "win" THEN "\\" ELSE "/"

IsAbsolute(p, os) == p # <<>> /\ p[1] = Sep(os)

Segments(p, os) == SelectSeq(p, LAMBDA tok : tok # Sep(os))

RECURSIVE NormSegments(_, _, _)
\* path.normalize on the segments: "." dropped, ".." cancels the segment before it
NormSegments(segs, acc, abs) ==
    IF segs = <<>> THEN acc
    ELSE LET h == Head(segs) IN
         IF h = "." THEN NormSegments(Tail(segs), acc, abs)
         ELSE IF h = ".." THEN
              IF acc # <<>> /\ acc[Len(acc)] # ".."
              THEN NormSegments(Tail(segs), SliceOffLast(acc), abs)
              ELSE IF abs THEN NormSegments(Tail(segs), acc, abs)
              ELSE NormSegments(Tail(segs), Append(acc, h), abs)
         ELSE NormSegments(Tail(segs), Append(acc, h), abs)

RECURSIVE Interleave(_, _)
Interleave(segs, sep) ==
    IF segs = <<>> THEN <<>>
    ELSE IF Len(segs) = 1 THEN segs
    ELSE <<Head(segs), sep>> \o Interleave(Tail(segs), sep)

Normalize(p, os) ==
    (IF IsAbsolute(p, os) THEN <<Sep(os)>> ELSE <<>>)
        \o Interleave(NormSegments(Segments(p, os), <<>>, IsAbsolute(p, os)), Sep(os))

\* path.join(a, b, ...): the parts joined by the separator, then normalized
PathJoin(parts, os) == Normalize(Concat([i \in 1..Len(parts) |->
                            IF i = 1 THEN parts[i] ELSE <<Sep(os)>> \o parts[i]]), os)

IsPrefix(a, b) == Len(a) <= Len(b) /\ SubSeq(b, 1, Len(a)) = a

\* fs.existsSync(p): p names an installed path or a directory above one
existsSync(p, files, os) ==
    \E q \in files : IsPrefix(Normalize(p, os), q)
                     /\ (Len(q) = Len(Normalize(p, os)) \/ q[Len(Normalize(p, os)) + 1] = Sep(os))

RECURSIVE VersionsFrom(_, _, _, _)
VersionsFrom(i, p, files, os) ==
    IF i > MaxVersions THEN <<>>
    ELSE (IF existsSync(PathJoin(<<p, <<ToString(i)>>>>, os), files, os)
          THEN <<ToString(i)>> ELSE <<>>) \o VersionsFrom(i + 1, p, files, os)

\* fs.readdirSync(p): the entries of p in ascending name order
readdirSync(p, files, os) == VersionsFrom(1, p, files, os)

----------------------------------------------------------------------------
(* Error taxonomy *)

NoDiag == [t |-> "none", s |-> <<>>]

NoError == [name |-> "none", message |-> <<>>, diag |-> NoDiag]

\* Error(message)
PlainError(message) == [name |-> "Error", message |-> message, diag |-> NoDiag]

\* new REngineNotFoundError(path): the path is interpolated into the message
REngineNotFoundError(path) ==
    [name |-> "REngineNotFoundError",
     message |-> <<"R Engine not found. See www.r-project.org. (path: ">>
                    \o Stringify(path) \o <<")">>,
     diag |-> NoDiag]

\* new RScriptError(diagnostic): carries the diagnostic it is given
RScriptError(diagnostic) ==
    [name |-> "RScriptError", message |-> <<>>, diag |-> diagnostic]

----------------------------------------------------------------------------
(* Process executor.  p is how the subprocess ends: what it wrote to stdout *)
(* and stderr and its exit status.                                         *)

\* child_process: the message of the error of a command that exited non-zero
FailMessage(command, p) == <<"Command failed: ">> \o command \o <<"\n">> \o p.stderr

\* execSync returns stdout on exit 0 and throws otherwise; the catch keeps the
\* thrown error as stderr and leaves stdout unset
executeShellCommand(command, p) ==
    IF p.exit = 0
    THEN [stdout |-> Str(p.stdout), stderr |-> [t |-> "undefined", s |-> <<>>]]
    ELSE [stdout |-> Undefined, stderr |-> [t |-> "Error", s |-> FailMessage(command, p)]]

\* exec's callback gets (err, stdout, stderr): stdout whatever the exit status
execShellCommandAsync(command, p) ==
    [stdout |-> Str(p.stdout),
     stderr |-> IF p.exit # 0
                THEN [t |-> "string", s |-> FailMessage(command, p)]
                ELSE [t |-> "string", s |-> p.stderr]]

----------------------------------------------------------------------------
(* The environment the locator probes *)

\* "C:\\Program Files\\R"
DefaultRoot == <<"C:", "\\", "Program Files", "\\", "R">>

\* the directory of the PATH that `which Rscript` searches
PathDir == <<"/", "usr", "/", "bin">>

WhichCommand == <<"which Rscript">>

\* the `which Rscript` subprocess: prints the engine found on the PATH, or exits 1
WhichProc(files, os) ==
    IF existsSync(PathJoin(<<PathDir, <<"Rscript">>>>, os), files, os)
    THEN [stdout |-> PathJoin(<<PathDir, <<"Rscript">>>>, os) \o <<"\n">>,
          stderr |-> <<>>, exit |-> 0]
    ELSE [stdout |-> <<>>, stderr |-> <<>>, exit |-> 1]

----------------------------------------------------------------------------
(* Engine locator *)

Located(dir, tried, probes) ==
    IF Truthy(dir)
    THEN [ok |-> TRUE, installationDir |-> dir.s, error |-> NoError, spawned |-> probes]
    ELSE [ok |-> FALSE, installationDir |-> <<>>,
          error |-> REngineNotFoundError(tried), spawned |-> probes]

getRscriptPath_win(path, files) ==
    LET root == IF ~Truthy(path) THEN PathJoin(<<DefaultRoot>>, "win") ELSE path.s
        dirContent == readdirSync(root, files, "win")
    IN  IF existsSync(root, files, "win") /\ Len(dirContent) # 0
        THEN Located(Str(PathJoin(<<root, <<dirContent[Len(dirContent)]>>,
                                     <<"bin">>, <<"Rscript.exe">>>>, "win")),
                     Str(root), <<>>)
        ELSE Located(Undefined, Str(root), <<>>)

getRscriptPath_unix(path, files, os) ==
    IF ~Truthy(path)
    THEN LET found == executeShellCommand(WhichCommand, WhichProc(files, os)).stdout
         IN  Located(IF Truthy(found) THEN Str(ReplaceFirst(found.s, "\n")) ELSE Undefined,
                     found, <<WhichCommand>>)
    ELSE LET file == PathJoin(<<path.s, <<"Rscript">>>>, os)
         IN  Located(IF existsSync(file, files, os) THEN Str(file) ELSE Undefined,
                     Str(file), <<>>)

getRscriptPath_keepOverride(path, processPlatform, files) ==
    LET os == getCurrentOs(processPlatform)
        r == IF os = "win" THEN getRscriptPath_win(path, files)
             ELSE getRscriptPath_unix(path, files, os)
    IN  IF r.ok \/ ~Truthy(path) THEN r
        ELSE [r EXCEPT !.error = REngineNotFoundError(path)]

getRscriptPath_cached(path, processPlatform, files) ==
    LET os == getCurrentOs(processPlatform)
        r == IF os = "win" THEN getRscriptPath_win(path, files)
             ELSE getRscriptPath_unix(path, files, os)
    IN  IF result.error.name = "REngineNotFoundError"
        THEN [r EXCEPT !.ok = FALSE, !.installationDir = <<>>, !.error = result.error]
        ELSE r

getRscriptPath(path, processPlatform, files) ==
    LET os == getCurrentOs(processPlatform)
    IN  CASE os = "win" -> getRscriptPath_win(path, files)
          [] os \in {"mac", "lin"} -> getRscriptPath_unix(path, files, os)
          [] OTHER -> [ok |-> FALSE, installationDir |-> <<>>,
                       error |-> PlainError(<<"Cannot determine OS type">>),
                       spawned |-> <<>>]

----------------------------------------------------------------------------
(* Call synthesizer.  A parameter value is [t, s, n, v]: a string (s), a    *)
(* number (n), undefined, or a list (v).  params is [kind, keys, vals]: a   *)
(* positional list ("arr"), a named map ("map", keys[i] = vals[i]) or       *)
(* missing.                                                                *)

StrV(t) == [t |-> "str", s |-> t, n |-> 0, v |-> <<>>]

NumV(n) == [t |-> "num", s |-> <<>>, n |-> n, v |-> <<>>]

UndefV == [t |-> "undef", s |-> <<>>, n |-> 0, v |-> <<>>]

ArrV(items) == [t |-> "arr", s |-> <<>>, n |-> 0, v |-> items]

MissingParams == [kind |-> "missing", keys |-> <<>>, vals |-> <<>>]

ArrParams(items) == [kind |-> "arr", keys |-> <<>>, vals |-> items]

MapParams(keys, items) == [kind |-> "map", keys |-> keys, vals |-> items]

RECURSIVE NumText(_)
\* `${n}` for a natural number: its decimal digits
NumText(n) == IF n < 10 THEN <<ToString(n)>>
              ELSE NumText(n \div 10) \o <<ToString(n % 10)>>

RECURSIVE convertParamsArray(_)
convertParamsArray(params) ==
    CASE params.t = "arr" ->
            SliceOffLast(<<"c", "(">>
                \o Concat([i \in 1..Len(params.v) |-> convertParamsArray(params.v[i])]))
            \o <<")", ",">>
      [] params.t = "str" -> <<"'">> \o params.s \o <<"'", ",">>
      [] params.t = "undef" -> <<"N", "A", ",">>
      [] OTHER -> NumText(params.n) \o <<",">>

\* one entry of a named map: `${key}=...,`
NamedEntry(key, value) ==
    CASE value.t = "arr" -> key \o <<"=">> \o convertParamsArray(value)
      [] value.t = "str" -> key \o <<"=", "'">> \o value.s \o <<"'", ",">>
      [] value.t = "undef" -> key \o <<"=", "N", "A", ",">>
      [] OTHER -> key \o <<"=">> \o NumText(value.n) \o <<",">>

\* the call expression: the name, "(", the serialized params, the last
\* character sliced off, ")"
methodSyntaxOf(methodName, params) ==
    SliceOffLast(
        methodName \o <<"(">>
        \o (IF params.kind = "arr"
            THEN convertParamsArray(ArrV(params.vals))
            ELSE Concat([i \in 1..Len(params.vals) |->
                            NamedEntry(params.keys[i], params.vals[i])])))
    \o <<")">>

\* !params: a missing params is falsy, a list or a map (even empty) is not
ParamsPresent(params) == params.kind # "missing"

----------------------------------------------------------------------------
(* Output parser *)

Digits == {"0", "1", "2", "3", "4", "5", "6", "7", "8", "9"}

\* the characters the regular expression class \s matches
Whitespace == {" ", "\t", "\n", "\r"}

RECURSIVE DigitsEnd(_, _)
\* the index after the run of digits that starts at i
DigitsEnd(t, i) == IF i <= Len(t) /\ t[i] \in Digits THEN DigitsEnd(t, i + 1) ELSE i

\* the index after a match of /\[\d+\] / at i, or 0
IndexPrefixEnd(t, i) ==
    LET e == DigitsEnd(t, i + 1)
    IN  IF i <= Len(t) /\ t[i] = "[" /\ e > i + 1
           /\ e + 1 <= Len(t) /\ t[e] = "]" /\ t[e + 1] = " "
        THEN e + 2 ELSE 0

RECURSIVE StripIndexPrefixes(_, _)
\* replace(/\[\d+\] /g, "")
StripIndexPrefixes(t, i) ==
    IF i > Len(t) THEN <<>>
    ELSE IF IndexPrefixEnd(t, i) # 0 THEN StripIndexPrefixes(t, IndexPrefixEnd(t, i))
    ELSE <<t[i]>> \o StripIndexPrefixes(t, i + 1)

RECURSIVE StripTrailingWs(_)
\* replace(/\t*\s*\n*$/g, ""), and /\t*\s*[\r\n]*$/g alike: the trailing
\* run of whitespace goes
StripTrailingWs(t) ==
    IF t # <<>> /\ t[Len(t)] \in Whitespace THEN StripTrailingWs(SliceOffLast(t)) ELSE t

RECURSIVE RunEnd(_, _, _)
\* the index after the run of characters of S that starts at i
RunEnd(t, i, S) == IF i <= Len(t) /\ t[i] \in S THEN RunEnd(t, i + 1, S) ELSE i

RECURSIVE CollapseWs(_, _, _)
\* replace(/[\s\t]+/g, eol): every run of whitespace becomes one line separator
CollapseWs(t, i, eol) ==
    IF i > Len(t) THEN <<>>
    ELSE IF t[i] \in Whitespace THEN eol \o CollapseWs(t, RunEnd(t, i, Whitespace), eol)
    ELSE <<t[i]>> \o CollapseWs(t, i + 1, eol)

RECURSIVE SplitOn(_, _, _, _)
\* String.prototype.split(/[S]+/): the pieces between the runs of S; a run at
\* either end gives an empty piece there
SplitOn(t, i, S, cur) ==
    IF i > Len(t) THEN <<cur>>
    ELSE IF t[i] \in S THEN <<cur>> \o SplitOn(t, RunEnd(t, i, S), S, <<>>)
    ELSE SplitOn(t, i + 1, S, Append(cur, t[i]))

----------------------------------------------------------------------------
(* JSON.parse, as far as the parser needs it: whether a text is one JSON    *)
(* document.  Escapes, signs, fractions and exponents are not recognised:  *)
(* no text of the model holds a backslash, "-", "." or an exponent.         *)

JsonWs == {" ", "\t", "\n", "\r"}

MatchAt(t, i, word) == i + Len(word) - 1 <= Len(t) /\ SubSeq(t, i, i + Len(word) - 1) = word

RECURSIVE JsonStringEnd(_, _)
\* i is just after the opening quote: the index after the closing quote, or 0
JsonStringEnd(t, i) ==
    IF i > Len(t) THEN 0
    ELSE IF t[i] = "\"" THEN i + 1
    ELSE IF t[i] \in {"\n", "\r", "\t", "\\"} THEN 0
    ELSE JsonStringEnd(t, i + 1)

RECURSIVE JsonValueEnd(_, _)
RECURSIVE JsonElementsEnd(_, _)
RECURSIVE JsonMembersEnd(_, _)

\* a member `"key" : value` starts at i: the index after the value, or 0
JsonMemberEnd(t, i) ==
    IF ~(i <= Len(t) /\ t[i] = "\"") THEN 0
    ELSE LET k == JsonStringEnd(t, i + 1)
             c == IF k = 0 THEN 0 ELSE RunEnd(t, k, JsonWs)
         IN  IF c = 0 \/ c > Len(t) \/ t[c] # ":" THEN 0
             ELSE JsonValueEnd(t, RunEnd(t, c + 1, JsonWs))

\* the index after the JSON value that starts at i, or 0
JsonValueEnd(t, i) ==
    IF i > Len(t) THEN 0
    ELSE IF t[i] = "\"" THEN JsonStringEnd(t, i + 1)
    ELSE IF t[i] = "0" THEN i + 1
    ELSE IF t[i] \in Digits THEN DigitsEnd(t, i)
    ELSE IF MatchAt(t, i, <<"t", "r", "u", "e">>) THEN i + 4
    ELSE IF MatchAt(t, i, <<"n", "u", "l", "l">>) THEN i + 4
    ELSE IF MatchAt(t, i, <<"f", "a", "l", "s", "e">>) THEN i + 5
    ELSE IF t[i] = "[" THEN
         LET j == RunEnd(t, i + 1, JsonWs)
         IN  IF j <= Len(t) /\ t[j] = "]" THEN j + 1
             ELSE LET e == JsonValueEnd(t, j)
                  IN  IF e = 0 THEN 0 ELSE JsonElementsEnd(t, RunEnd(t, e, JsonWs))
    ELSE IF t[i] = "{" THEN
         LET j == RunEnd(t, i + 1, JsonWs)
         IN  IF j <= Len(t) /\ t[j] = "}" THEN j + 1
             ELSE LET e == JsonMemberEnd(t, j)
                  IN  IF e = 0 THEN 0 ELSE JsonMembersEnd(t, RunEnd(t, e, JsonWs))
    ELSE 0

\* after an element of an array: "]" ends it, "," brings the next element
JsonElementsEnd(t, i) ==
    IF i > Len(t) THEN 0
    ELSE IF t[i] = "]" THEN i + 1
    ELSE IF t[i] = "," THEN
         LET e == JsonValueEnd(t, RunEnd(t, i + 1, JsonWs))
         IN  IF e = 0 THEN 0 ELSE JsonElementsEnd(t, RunEnd(t, e, JsonWs))
    ELSE 0

\* after a member of an object: "}" ends it, "," brings the next member
JsonMembersEnd(t, i) ==
    IF i > Len(t) THEN 0
    ELSE IF t[i] = "}" THEN i + 1
    ELSE IF t[i] = "," THEN
         LET e == JsonMemberEnd(t, RunEnd(t, i + 1, JsonWs))
         IN  IF e = 0 THEN 0 ELSE JsonMembersEnd(t, RunEnd(t, e, JsonWs))
    ELSE 0

\* JSON.parse(t) does not throw
JsonParses(t) ==
    LET e == JsonValueEnd(t, RunEnd(t, 1, JsonWs))
    IN  e # 0 /\ RunEnd(t, e, JsonWs) = Len(t) + 1

----------------------------------------------------------------------------

\* the text after the index prefixes are gone and the whitespace is normalized
NormalizedOutput(commandResult, processPlatform) ==
    CollapseWs(StripTrailingWs(StripIndexPrefixes(commandResult, 1)), 1,
               IF getCurrentOs(processPlatform) = "win" THEN <<"\r", "\n">> ELSE <<"\n">>)

\* one piece of the split output: NA, NaN, or the piece without its quotes
Token(piece) ==
    IF piece = <<"N", "A">> THEN [t |-> "undefined", s |-> <<>>]
    ELSE IF piece = <<"N", "a", "N">> THEN [t |-> "NaN", s |-> <<>>]
    ELSE [t |-> "string", s |-> SelectSeq(piece, LAMBDA c : c # "\"")]

filterMultiline(commandResult, processPlatform) ==
    LET text == NormalizedOutput(commandResult, processPlatform)
        data == SplitOn(text, 1,
                        IF getCurrentOs(processPlatform) = "win" THEN {"\r", "\n"} ELSE {"\n"},
                        <<>>)
    IN  IF JsonParses(text)
        THEN <<[t |-> "json", s |-> text]>>
        ELSE [i \in 1..Len(data) |-> Token(data[i])]

----------------------------------------------------------------------------
(* Invocation facade.  Each operation runs up to the spawn of the engine    *)
(* subprocess (or to the error that ends it first); the subprocess then    *)
(* runs on its own, and the operation resumes when it has ended.            *)

NoValue == [t |-> "none", items |-> <<>>]

\* the placeholder `let output = 0`
ZeroValue == [t |-> "number", items |-> <<>>]

ArrayValue(items) == [t |-> "array", items |-> items]

NoResult == [kind |-> "none", value |-> NoValue, error |-> NoError]

Returned(value) == [kind |-> "return", value |-> value, error |-> NoError]

\* thrown by a synchronous operation, the rejection of an asynchronous one
Thrown(error) == [kind |-> "throw", value |-> NoValue, error |-> error]

NoProc == [stdout |-> <<>>, stderr |-> <<>>, exit |-> -1]

\* `"${RscriptBinaryPath}" -e "${command}"`
RCommandLine(RscriptBinaryPath, command) ==
    <<"\"">> \o RscriptBinaryPath \o <<"\"", " ", "-", "e", " ", "\"">> \o command \o <<"\"">>

\* `"${RscriptBinaryPath}" "${fileLocation}"`
RScriptLine(RscriptBinaryPath, fileLocation) ==
    <<"\"">> \o RscriptBinaryPath \o <<"\"", " ", "\"">> \o fileLocation \o <<"\"">>

Failed(error, probes) ==
    [kind |-> "throw", error |-> error, command |-> <<>>, spawned |-> probes]

Spawn(command, probes) ==
    [kind |-> "spawn", error |-> NoError, command |-> command,
     spawned |-> Append(probes, command)]

outputOrThrow_zero(commandResult, processPlatform) ==
    IF Truthy(commandResult.stdout)
    THEN Returned(ArrayValue(filterMultiline(commandResult.stdout.s, processPlatform)))
    ELSE Returned(ZeroValue)

\* the end of executeRCommand, executeRCommandAsync and executeRScript: parse
\* the stdout if there is any, throw the script error otherwise
outputOrThrow(commandResult, processPlatform) ==
    IF Truthy(commandResult.stdout)
    THEN Returned(ArrayValue(filterMultiline(commandResult.stdout.s, processPlatform)))
    ELSE Thrown(RScriptError(commandResult.stderr))

\* executeRCommand and executeRCommandAsync up to the spawn
executeRCommand_start(command, RBinariesLocation, processPlatform, files) ==
    LET loc == getRscriptPath(RBinariesLocation, processPlatform, files)
    IN  IF ~loc.ok THEN Failed(loc.error, loc.spawned)
        ELSE Spawn(RCommandLine(loc.installationDir, command), loc.spawned)

FileNotFound(fileLocation) ==
    PlainError(<<"ERROR: the file \"">> \o Stringify(fileLocation) \o <<"\" doesn't exist">>)

executeRScript_fileFirst(fileLocation, RBinariesLocation, processPlatform, files) ==
    LET loc == getRscriptPath(RBinariesLocation, processPlatform, files)
        os == getCurrentOs(processPlatform)
    IN  IF ~(fileLocation.def /\ existsSync(fileLocation.s, files, os))
        THEN Failed(FileNotFound(fileLocation), <<>>)
        ELSE IF ~loc.ok THEN Failed(loc.error, loc.spawned)
        ELSE Spawn(RScriptLine(loc.installationDir, fileLocation.s), loc.spawned)

\* executeRScript up to the spawn
executeRScript_start(fileLocation, RBinariesLocation, processPlatform, files) ==
    LET loc == getRscriptPath(RBinariesLocation, processPlatform, files)
        os == getCurrentOs(processPlatform)
    IN  IF ~loc.ok THEN Failed(loc.error, loc.spawned)
        ELSE IF ~(fileLocation.def /\ existsSync(fileLocation.s, files, os))
        THEN Failed(FileNotFound(fileLocation), loc.spawned)
        ELSE Spawn(RScriptLine(loc.installationDir, fileLocation.s), loc.spawned)

InvalidCallMethod ==
    PlainError(<<"ERROR: please provide valid parameters - methodName, fileLocation and params cannot be null">>)

InvalidCallStandardMethod ==
    PlainError(<<"ERROR: please provide valid parameters - methodName and params cannot be null">>)

\* `source('${fileLocation}'); print(${methodSyntax})`
SourceAndPrint(fileLocation, methodSyntax) ==
    <<"s", "o", "u", "r", "c", "e", "(", "'">> \o fileLocation
    \o <<"'", ")", ";", " ", "p", "r", "i", "n", "t", "(">> \o methodSyntax \o <<")">>

\* `print(${methodSyntax})`
PrintOnly(methodSyntax) == <<"p", "r", "i", "n", "t", "(">> \o methodSyntax \o <<")">>

callMethod_locateFirst(fileLocation, methodName, params, RBinariesLocation, processPlatform, files) ==
    LET loc == getRscriptPath(RBinariesLocation, processPlatform, files)
    IN  IF ~Truthy(methodName) \/ ~Truthy(fileLocation) \/ ~ParamsPresent(params)
        THEN Failed(InvalidCallMethod, loc.spawned)
        ELSE executeRCommand_start(
                 SourceAndPrint(fileLocation.s, methodSyntaxOf(methodName.s, params)),
                 RBinariesLocation, processPlatform, files)

\* callMethod up to the spawn
callMethod_start(fileLocation, methodName, params, RBinariesLocation, processPlatform, files) ==
    IF ~Truthy(methodName) \/ ~Truthy(fileLocation) \/ ~ParamsPresent(params)
    THEN Failed(InvalidCallMethod, <<>>)
    ELSE executeRCommand_start(
             SourceAndPrint(fileLocation.s, methodSyntaxOf(methodName.s, params)),
             RBinariesLocation, processPlatform, files)

\* callMethodAsync up to the spawn
callMethodAsync_start(fileLocation, methodName, params, RBinariesLocation, processPlatform, files) ==
    IF ~Truthy(methodName) \/ ~Truthy(fileLocation) \/ ~ParamsPresent(params)
    THEN Failed(InvalidCallMethod, <<>>)
    ELSE executeRCommand_start(
             SourceAndPrint(fileLocation.s, methodSyntaxOf(methodName.s, params)),
             RBinariesLocation, processPlatform, files)

\* callStandardMethod up to the spawn
callStandardMethod_start(methodName, params, RBinariesLocation, processPlatform, files) ==
    IF ~Truthy(methodName) \/ ~ParamsPresent(params)
    THEN Failed(InvalidCallStandardMethod, <<>>)
    ELSE executeRCommand_start(PrintOnly(methodSyntaxOf(methodName.s, params)),
                               RBinariesLocation, processPlatform, files)

----------------------------------------------------------------------------
(* The inputs of the facade runs *)

HostOs == getCurrentOs(platform)

\* an override directory and a second spelling of it
OverrideDirs(os) ==
    IF os = "win"
    THEN {<<"D:", "\\", "R">>, <<"D:", "\\", "alt", "\\", "..", "\\", "R">>}
    ELSE {<<"/", "opt", "/", "R">>, <<"/", "opt", "/", "alt", "/", "..", "/", "R">>}

BinariesLocations(os) == {Undefined} \cup {Str(d) : d \in OverrideDirs(os)}

\* where an engine can be installed: on the PATH or in the override directory
\* (Unix-like), as a version directory of a root (Windows)
EngineCandidates(os) ==
    IF os = "win"
    THEN {PathJoin(<<DefaultRoot, <<ToString(i)>>>>, os) : i \in 1..MaxVersions}
         \cup {PathJoin(<<d, <<"1">>>>, os) : d \in OverrideDirs(os)}
    ELSE {PathJoin(<<PathDir, <<"Rscript">>>>, os)}
         \cup {PathJoin(<<d, <<"Rscript">>>>, os) : d \in OverrideDirs(os)}

ScriptFile == <<"s.R">>

FileLocations == {Str(ScriptFile), Str(<<"nofile.R">>), Undefined}

MethodNames == {Str(<<"f">>), Undefined}

Commands == {<<"1", "+", "1">>}

FacadeParams == {MissingParams, ArrParams(<<NumV(1)>>), MapParams(<<<<"k">>>>, <<StrV(<<"a">>)>>)}

\* the arguments of the call* operations: all present, or one of them missing
CallArguments ==
    {a \in [fileLocation : FileLocations \ {Str(<<"nofile.R">>)},
            methodName : MethodNames, params : FacadeParams] :
        Cardinality({x \in {1, 2, 3} :
            \/ x = 1 /\ ~a.fileLocation.def
            \/ x = 2 /\ ~a.methodName.def
            \/ x = 3 /\ ~ParamsPresent(a.params)}) <= 1}

StdoutSamples ==
    {<<>>,
     <<"[", "1", "]", " ", "5", "\n">>,
     <<"[", "1", "]", " ", "N", "A", " ", "\"", "a", "\"", "\n">>}

StderrSamples == {<<>>, <<"E", "r", "r">>}

Procs == [stdout : StdoutSamples, stderr : StderrSamples, exit : {0, 1}]

CallRecord(op, command, fileLocation, methodName, params, RBinariesLocation) ==
    [op |-> op, command |-> command, fileLocation |-> fileLocation,
     methodName |-> methodName, params |-> params,
     RBinariesLocation |-> RBinariesLocation]

NoCall == CallRecord("none", <<>>, Undefined, Undefined, MissingParams, Undefined)

----------------------------------------------------------------------------
(* Actions *)

parserVars == <<raw, parsed>>

NotParsed == [done |-> FALSE, data |-> <<>>]

NoSynth == [op |-> "none", methodName |-> Undefined, params |-> MissingParams]

NotBuilt == [state |-> "none", s |-> <<>>]

synthVars == <<synth, expr>>

\* an operation begins: it ends at once with an error, or its subprocess is
\* spawned and the caller waits for it
Begin(c, st, waiting) ==
    /\ phase = "idle"
    /\ call' = c
    /\ spawned' = st.spawned
    /\ proc' = NoProc
    /\ result' = IF st.kind = "throw" THEN Thrown(st.error) ELSE NoResult
    /\ phase' = IF st.kind = "throw" THEN "idle" ELSE waiting
    /\ UNCHANGED <<platform, fs, parserVars, synthVars>>

ExecuteRCommand(command, loc) ==
    Begin(CallRecord("executeRCommand", command, Undefined, Undefined, MissingParams, loc),
          executeRCommand_start(command, loc, platform, fs), "blocked")

ExecuteRCommandAsync(command, loc) ==
    Begin(CallRecord("executeRCommandAsync", command, Undefined, Undefined, MissingParams, loc),
          executeRCommand_start(command, loc, platform, fs), "awaiting")

ExecuteRScript(file, loc) ==
    Begin(CallRecord("executeRScript", <<>>, file, Undefined, MissingParams, loc),
          executeRScript_start(file, loc, platform, fs), "blocked")

CallMethod(a, loc) ==
    Begin(CallRecord("callMethod", <<>>, a.fileLocation, a.methodName, a.params, loc),
          callMethod_start(a.fileLocation, a.methodName, a.params, loc, platform, fs),
          "blocked")

CallMethodAsync(a, loc) ==
    Begin(CallRecord("callMethodAsync", <<>>, a.fileLocation, a.methodName, a.params, loc),
          callMethodAsync_start(a.fileLocation, a.methodName, a.params, loc, platform, fs),
          "awaiting")

CallStandardMethod(a, loc) ==
    Begin(CallRecord("callStandardMethod", <<>>, Undefined, a.methodName, a.params, loc),
          callStandardMethod_start(a.methodName, a.params, loc, platform, fs),
          "blocked")

\* the engine subprocess of a synchronous operation has ended: execSync
\* returns or throws, and the operation finishes
ExecSyncEnds(p) ==
    /\ phase = "blocked"
    /\ proc' = p
    /\ result' = outputOrThrow(executeShellCommand(spawned[Len(spawned)], p), platform)
    /\ phase' = "idle"
    /\ UNCHANGED <<platform, fs, call, spawned, parserVars, synthVars>>

\* the engine subprocess of an asynchronous operation has ended: exec's
\* callback resolves the promise, and the operation finishes
ExecCallback(p) ==
    /\ phase = "awaiting"
    /\ proc' = p
    /\ result' = outputOrThrow(execShellCommandAsync(spawned[Len(spawned)], p), platform)
    /\ phase' = "idle"
    /\ UNCHANGED <<platform, fs, call, spawned, parserVars, synthVars>>

\* the environment: an engine is installed
InstallEngine(path) ==
    /\ path \notin fs
    /\ fs' = fs \cup {path}
    /\ UNCHANGED <<platform, phase, call, spawned, proc, result, parserVars, synthVars>>

\* the environment: an engine is removed
RemoveEngine(path) ==
    /\ path \in fs
    /\ fs' = fs \ {path}
    /\ UNCHANGED <<platform, phase, call, spawned, proc, result, parserVars, synthVars>>

Init ==
    /\ platform \in Platforms
    /\ fs \in {{ScriptFile} \cup e : e \in SUBSET EngineCandidates(getCurrentOs(platform))}
    /\ phase = "idle"
    /\ call = NoCall
    /\ spawned = <<>>
    /\ proc = NoProc
    /\ result = NoResult
    /\ raw = <<>>
    /\ parsed = NotParsed
    /\ synth = NoSynth
    /\ expr = NotBuilt

Next ==
    \/ \E c \in Commands, loc \in BinariesLocations(HostOs) : ExecuteRCommand(c, loc)
    \/ \E c \in Commands, loc \in BinariesLocations(HostOs) : ExecuteRCommandAsync(c, loc)
    \/ \E f \in FileLocations, loc \in BinariesLocations(HostOs) : ExecuteRScript(f, loc)
    \/ \E a \in CallArguments, loc \in BinariesLocations(HostOs) : CallMethod(a, loc)
    \/ \E a \in CallArguments, loc \in BinariesLocations(HostOs) : CallMethodAsync(a, loc)
    \/ \E a \in CallArguments, loc \in BinariesLocations(HostOs) : CallStandardMethod(a, loc)
    \/ \E p \in Procs : ExecSyncEnds(p)
    \/ \E p \in Procs : ExecCallback(p)
    \/ \E path \in EngineCandidates(HostOs) : InstallEngine(path)
    \/ \E path \in EngineCandidates(HostOs) : RemoveEngine(path)

Spec == Init /\ [][Next]_vars

----------------------------------------------------------------------------
(* The call synthesizer on its own: every params value up to the bounds *)

SeqsUpTo(S, n) == UNION {[1..k -> S] : k \in 0..n}

Scalars == {StrV(<<"a">>), NumV(1), UndefV}

RECURSIVE ValuesOfDepth(_)
\* the parameter values whose lists nest at most d deep
ValuesOfDepth(d) ==
    IF d = 0 THEN Scalars
    ELSE Scalars \cup {ArrV(items) : items \in SeqsUpTo(ValuesOfDepth(d - 1), MaxItems)}

Keys == {<<"k">>, <<"j">>}

KeyLists == {ks \in SeqsUpTo(Keys, MaxItems) : \A i, j \in 1..Len(ks) : i # j => ks[i] # ks[j]}

SynthParams ==
    {MissingParams}
    \cup {ArrParams(items) : items \in SeqsUpTo(ValuesOfDepth(MaxDepth), MaxItems)}
    \cup UNION {{MapParams(ks, items) : items \in [1..Len(ks) -> ValuesOfDepth(MaxDepth)]} :
                    ks \in KeyLists}

SynthOps == {"callMethod", "callMethodAsync", "callStandardMethod"}

SynthInit ==
    /\ platform = "linux"
    /\ fs = {ScriptFile}
    /\ phase = "idle"
    /\ call = NoCall
    /\ spawned = <<>>
    /\ proc = NoProc
    /\ result = NoResult
    /\ raw = <<>>
    /\ parsed = NotParsed
    /\ synth \in [op : SynthOps, methodName : MethodNames, params : SynthParams]
    /\ expr = NotBuilt

\* the validation of callMethod, callMethodAsync and callStandardMethod turns
\* the call down
RejectCall ==
    /\ expr.state = "none"
    /\ ~Truthy(synth.methodName) \/ ~ParamsPresent(synth.params)
    /\ expr' = [state |-> "rejected", s |-> <<>>]
    /\ UNCHANGED <<facadeVars, parserVars, synth>>

\* the validation accepts the call and the call expression is built
BuildCall ==
    /\ expr.state = "none"
    /\ Truthy(synth.methodName) /\ ParamsPresent(synth.params)
    /\ expr' = [state |-> "built", s |-> methodSyntaxOf(synth.methodName.s, synth.params)]
    /\ UNCHANGED <<facadeVars, parserVars, synth>>

SynthNext == RejectCall \/ BuildCall

SynthSpec == SynthInit /\ [][SynthNext]_vars

----------------------------------------------------------------------------
(* The output parser on its own: every raw output up to the bound *)

RawAlphabet == {"a", " ", "\n", "\"", "[", "1", "]", "N", "A"}

ParsePlatforms == {"win32", "linux", "darwin"}

ParseInit ==
    /\ platform \in ParsePlatforms
    /\ fs = {ScriptFile}
    /\ phase = "idle"
    /\ call = NoCall
    /\ spawned = <<>>
    /\ proc = NoProc
    /\ result = NoResult
    /\ raw \in SeqsUpTo(RawAlphabet, MaxRawLen)
    /\ parsed = NotParsed
    /\ synth = NoSynth
    /\ expr = NotBuilt

Parse ==
    /\ ~parsed.done
    /\ parsed' = [done |-> TRUE, data |-> filterMultiline(raw, platform)]
    /\ UNCHANGED <<facadeVars, raw, synthVars>>

ParseNext == Parse

ParseSpec == ParseInit /\ [][ParseNext]_vars

----------------------------------------------------------------------------
(* What the properties below speak of *)

\* the engine subprocess of the last operation has ended and the operation
\* has given its caller a result
EngineEnded == phase = "idle" /\ proc # NoProc

\* an operation has finished, one way or another
Finished == phase = "idle" /\ call.op # "none"

UnixLike == HostOs \in {"lin", "mac"}

\* the validation of a call* operation turns these arguments down
ValidationFails(c) ==
    \/ /\ c.op \in {"callMethod", "callMethodAsync"}
       /\ ~Truthy(c.methodName) \/ ~Truthy(c.fileLocation) \/ ~ParamsPresent(c.params)
    \/ /\ c.op = "callStandardMethod"
       /\ ~Truthy(c.methodName) \/ ~ParamsPresent(c.params)

ValidationError(c) ==
    IF c.op = "callStandardMethod" THEN InvalidCallStandardMethod ELSE InvalidCallMethod

\* the environment holds an engine where the locator is told to look
EngineResolvable(files, os, loc) ==
    IF os = "win"
    THEN \E i \in 1..MaxVersions :
            PathJoin(<<IF Truthy(loc) THEN loc.s ELSE DefaultRoot, <<ToString(i)>>>>, os) \in files
    ELSE PathJoin(<<IF Truthy(loc) THEN loc.s ELSE PathDir, <<"Rscript">>>>, os) \in files

\* the runner the environment offers there
ExpectedRunner(files, os, loc) ==
    IF os = "win"
    THEN LET root == IF Truthy(loc) THEN loc.s ELSE DefaultRoot
             newest == CHOOSE i \in 1..MaxVersions :
                          /\ PathJoin(<<root, <<ToString(i)>>>>, os) \in files
                          /\ \A j \in (i + 1)..MaxVersions :
                                PathJoin(<<root, <<ToString(j)>>>>, os) \notin files
         IN  PathJoin(<<root, <<ToString(newest)>>, <<"bin">>, <<"Rscript.exe">>>>, os)
    ELSE PathJoin(<<IF Truthy(loc) THEN loc.s ELSE PathDir, <<"Rscript">>>>, os)

\* a command line that runs the engine (the locator's `which` probe is none)
IsEngineCommand(command) == command # WhichCommand

NoEngineSpawned(commands) == \A i \in 1..Len(commands) : ~IsEngineCommand(commands[i])

\* a facade operation begins in this step (the environment's steps leave
\* all of these alone)
BeginStep ==
    /\ phase = "idle"
    /\ <<phase, call, spawned, proc, result>>' # <<phase, call, spawned, proc, result>>

Balanced(t) ==
    /\ \A i \in 1..Len(t) :
          Cardinality({j \in 1..i : t[j] = ")"}) <= Cardinality({j \in 1..i : t[j] = "("})
    /\ Cardinality({j \in 1..Len(t) : t[j] = ")"}) = Cardinality({j \in 1..Len(t) : t[j] = "("})

NoTrailingSeparator(t) ==
    Len(t) >= 2 /\ t[Len(t)] = ")" => t[Len(t) - 1] # ","

SameOutcome(r1, r2) ==
    \/ r1.kind = "return" /\ r2.kind = "return" /\ r1.value = r2.value
    \/ /\ r1.kind = "throw" /\ r2.kind = "throw"
       /\ r1.error.name = "RScriptError" /\ r2.error.name = "RScriptError"

----------------------------------------------------------------------------
(* Properties *)

\* C1: whenever the engine subprocess ends having written no stdout and a
\* non-empty stderr, whatever its exit status, the operation raises an
\* RScriptError whose diagnostic is that stderr content.
C1_StderrAttached ==
    EngineEnded /\ proc.stdout = <<>> /\ proc.stderr # <<>>
        => result = Thrown(RScriptError([t |-> "string", s |-> proc.stderr]))

\* C2: for every params value the validation accepts, the call expression
\* has balanced parentheses and no "," right before its final ")".
C2_BalancedCall ==
    expr.state = "built" => Balanced(expr.s) /\ NoTrailingSeparator(expr.s)

\* C3: for the same expression, engine location and subprocess behaviour,
\* executeRCommand and executeRCommandAsync end in the same outcome: the same
\* parsed sequence, or a script-execution error in both.
C3_SyncAsyncAgree ==
    /\ EngineEnded /\ call.op = "executeRCommand"
          => SameOutcome(result,
                 outputOrThrow(execShellCommandAsync(spawned[Len(spawned)], proc), platform))
    /\ EngineEnded /\ call.op = "executeRCommandAsync"
          => SameOutcome(result,
                 outputOrThrow(executeShellCommand(spawned[Len(spawned)], proc), platform))

\* C4 as claimed: on a Unix-like host, the engine-not-found error of a call
\* with an override directory carries exactly the override path passed in.
C4_CarriesOverride ==
    Finished /\ UnixLike /\ Truthy(call.RBinariesLocation)
    /\ result.error.name = "REngineNotFoundError"
        => result.error = REngineNotFoundError(call.RBinariesLocation)

\* C4 as amended: on a Unix-like host, an operation that reaches the locator
\* with an override directory holding no Rscript fails with the
\* engine-not-found error, and the path that error carries is the override
\* joined with "Rscript" (path.join, so normalized).
C4_CarriesProbedFile ==
    [][BeginStep /\ UnixLike /\ Truthy(call'.RBinariesLocation) /\ ~ValidationFails(call')
       /\ ~existsSync(PathJoin(<<call'.RBinariesLocation.s, <<"Rscript">>>>, HostOs), fs, HostOs)
        => result' = Thrown(REngineNotFoundError(
                         Str(PathJoin(<<call'.RBinariesLocation.s, <<"Rscript">>>>, HostOs))))]_vars

C4_Witness ==
    Finished /\ UnixLike /\ Truthy(call.RBinariesLocation)
    /\ result.error.name = "REngineNotFoundError"
    /\ call.RBinariesLocation.s # Normalize(call.RBinariesLocation.s, HostOs)

\* C5 as claimed: a failed validation spawns nothing, and a failed engine
\* resolution leaves the call with the locator's error and no subprocess
\* spawned at all.
C5_NothingSpawned ==
    /\ Finished /\ ValidationFails(call)
          => result = Thrown(ValidationError(call)) /\ spawned = <<>>
    /\ Finished /\ result.error.name = "REngineNotFoundError" => spawned = <<>>

\* C5 as amended: a failed validation of a call* operation spawns nothing,
\* not even the locator's probe; a failed engine resolution ends the call
\* with the locator's error and without any engine subprocess: the only
\* subprocess such a call can have spawned is the locator's own
\* `which Rscript`.
C5_NoEngineSpawned ==
    /\ [](Finished /\ ValidationFails(call)
            => result = Thrown(ValidationError(call)) /\ spawned = <<>>)
    /\ [](result.error.name = "REngineNotFoundError"
            => result.kind = "throw" /\ phase = "idle" /\ NoEngineSpawned(spawned))
    /\ [][BeginStep /\ ~ValidationFails(call')
          /\ ~EngineResolvable(fs, HostOs, call'.RBinariesLocation)
            => /\ result'.kind = "throw"
               /\ result'.error.name = "REngineNotFoundError"
               /\ NoEngineSpawned(spawned')]_vars

C5_Witness ==
    \/ Finished /\ ValidationFails(call) /\ ~Truthy(call.RBinariesLocation)
    \/ Finished /\ result.error.name = "REngineNotFoundError" /\ spawned = <<WhichCommand>>

\* C6 as claimed: executeRScript with a file that does not exist raises the
\* file-does-not-exist error as its first step, whether the engine is
\* resolvable or not, without running the locator or spawning anything.
C6_FileCheckedFirst ==
    Finished /\ call.op = "executeRScript"
    /\ ~(call.fileLocation.def /\ existsSync(call.fileLocation.s, fs, HostOs))
        => result = Thrown(FileNotFound(call.fileLocation)) /\ spawned = <<>>

\* C6 as amended: executeRScript with a file that does not exist never spawns
\* the engine; it runs the locator first, so it raises the
\* file-does-not-exist error when the engine is resolvable and the locator's
\* engine-not-found error when it is not.
C6_FileCheckedAfterLocate ==
    [][BeginStep /\ call'.op = "executeRScript"
       /\ ~(call'.fileLocation.def /\ existsSync(call'.fileLocation.s, fs, HostOs))
        => /\ phase' = "idle"
           /\ NoEngineSpawned(spawned')
           /\ IF EngineResolvable(fs, HostOs, call'.RBinariesLocation)
              THEN result' = Thrown(FileNotFound(call'.fileLocation))
              ELSE result'.kind = "throw" /\ result'.error.name = "REngineNotFoundError"]_vars

C6_Witness ==
    /\ Finished /\ call.op = "executeRScript"
    /\ ~(call.fileLocation.def /\ existsSync(call.fileLocation.s, fs, HostOs))
    /\ result.error.name = "REngineNotFoundError"

\* C7: the locator caches nothing: whatever happened before, an operation
\* that reaches the locator resolves the engine the environment holds at that
\* moment (and runs that runner), and fails with engine-not-found exactly
\* when the environment holds none.
C7_NoCaching ==
    [][BeginStep /\ ~ValidationFails(call')
        => IF EngineResolvable(fs, HostOs, call'.RBinariesLocation)
           THEN /\ result'.error.name # "REngineNotFoundError"
                /\ phase' # "idle" =>
                      IsPrefix(<<"\"">> \o ExpectedRunner(fs, HostOs, call'.RBinariesLocation)
                                   \o <<"\"">>,
                               spawned'[Len(spawned')])
           ELSE result'.kind = "throw" /\ result'.error.name = "REngineNotFoundError"]_vars

\* the last operation found no engine and the environment has one by now
C7_Witness ==
    /\ Finished /\ result.error.name = "REngineNotFoundError"
    /\ EngineResolvable(fs, HostOs, call.RBinariesLocation)

Pieces ==
    SplitOn(NormalizedOutput(raw, platform), 1,
            IF getCurrentOs(platform) = "win" THEN {"\r", "\n"} ELSE {"\n"}, <<>>)

\* C9: for every raw output with a non-whitespace character left after the
\* index prefixes are stripped, the sequence filterMultiline returns on the
\* line-splitting path holds no empty string, whatever whitespace the raw
\* output has.  (Stated for the elements that come from an empty piece: an
\* element that is empty because its piece held nothing but quotes, R's "",
\* is not counted against the claim.)
C9_NoEmptyElement ==
    (/\ parsed.done
     /\ \E i \in 1..Len(StripIndexPrefixes(raw, 1)) :
           StripIndexPrefixes(raw, 1)[i] \notin Whitespace
     /\ ~JsonParses(NormalizedOutput(raw, platform)))
        => \A i \in 1..Len(parsed.data) :
              parsed.data[i] = [t |-> "string", s |-> <<>>] => Pieces[i] # <<>>

\* C10: whatever the host platform, getCurrentOs gives win, lin or mac, and
\* no operation ever fails with 'Cannot determine OS type'.
C10_OsAlwaysClassified ==
    /\ getCurrentOs(platform) \in {"win", "lin", "mac"}
    /\ result.error # PlainError(<<"Cannot determine OS type">>)

C10_Witness ==
    /\ platform \notin {"win32", "linux", "openbsd", "freebsd", "darwin"}
    /\ Finished /\ ~ValidationFails(call)

====
